---- MODULE Spec2Model ----
(***************************************************************************)
(* The GSAP context lifecycle of the Astro components of this site: each   *)
(* animated component keeps one module-level gsap.Context, re-creates it   *)
(* on astro:page-load and reverts it on astro:before-swap; initReveals     *)
(* hides and reveals the [data-reveal] elements on astro:page-load.        *)
(***************************************************************************)
EXTENDS Naturals, Sequences, FiniteSets

\* Number of navigation events (astro:page-load, astro:before-swap) dispatched in a run.
MaxSignals == 3

\* Components that follow the pattern, each with its own module-level context variable.
Regions == {"GSAPNewTires", "WhyChooseUs"}

\* The animated elements of the site, and the section each one lives in.
Elements == {"tire", "card"}

RegionOf(e) == IF e = "tire" THEN "GSAPNewTires" ELSE "WhyChooseUs"

\* document.querySelectorAll("[data-reveal]") over the whole site.
RevealElements == {"card"}

\* `ctx = null`, as a handle value.
NULL == [r |-> "null", n |-> 0]

\* The owner of a GSAP call made outside every gsap.context().
NoScope == [r |-> "none", n |-> 0]

VARIABLES
    jsEnabled,   \* scripts and GSAP loaded on this visit
    cssHidden,   \* elements hidden by static CSS / inline style attributes
    decorative,  \* sections classified "intentional" scroll-pinned experiences
    page,        \* sections the current document renders
    queue,       \* listeners of the event being dispatched, still to run
    nEvents,     \* events dispatched so far
    ctx,         \* per component: the module-level context variable
    live,        \* contexts created and not reverted
    muts,        \* inline styles GSAP applied: [el, tag, val]
    triggers,    \* ScrollTriggers alive: [tag, el, fired]
    tweens,      \* elements with a gsap.to() reveal tween in flight
    observed,    \* elements handed to observer.observe()
    nOpen,       \* per component: gsap.context() calls
    nRevert,     \* per component: ctx.revert() calls
    doubleOpen,  \* some gsap.context() ran while the component had a live context
    error,       \* some listener threw
    hist,        \* per component: the signals its listeners handled
    nFired,      \* per component: ScrollTrigger callbacks that ran
    inViewport   \* [data-reveal] elements whose rectangle met the viewport at page-load

vars == <<jsEnabled, cssHidden, decorative, page, queue, nEvents, ctx, live, muts,
          triggers, tweens, observed, nOpen, nRevert, doubleOpen, error, hist,
                   nFired, inViewport>>

\* The part of the state the listeners and the library read and write.
Cur == [ctx |-> ctx, live |-> live, muts |-> muts, triggers |-> triggers,
        tweens |-> tweens, observed |-> observed, nOpen |-> nOpen,
        nRevert |-> nRevert, doubleOpen |-> doubleOpen, error |-> error]

Commit(s) ==
    /\ ctx' = s.ctx
    /\ live' = s.live
    /\ muts' = s.muts
    /\ triggers' = s.triggers
    /\ tweens' = s.tweens
    /\ observed' = s.observed
    /\ nOpen' = s.nOpen
    /\ nRevert' = s.nRevert
    /\ doubleOpen' = s.doubleOpen
    /\ error' = s.error

LiveOfIn(s, r) == {h \in s.live : h.r = r}

LiveOf(r) == LiveOfIn(Cur, r)

\* An element shows unless static styling or some inline style GSAP applied hides it.
Hidden(e) == e \in cssHidden \/ \E m \in muts : m.el = e /\ m.val = "hidden"

----------------------------------------------------------------------------
\* The animation library.

\* A registration callback whose selectors are not scoped to the section.
CallbackUnscoped(r) == Elements

\* The elements the registration callback of component r animates: the ones of its section.
Callback(r) == {e \in Elements : RegionOf(e) = r}

\* The handle the next gsap.context() of component r returns.
NewHandle(s, r) == [r |-> r, n |-> s.nOpen[r] + 1]

\* gsap.set(el, {opacity: 0, ...}) issued by owner `tag`.
GsapSet(ms, els, tag) ==
    {m \in ms : ~(m.el \in els /\ m.tag = tag)}
        \cup {[el |-> e, tag |-> tag, val |-> "hidden"] : e \in els}

\* The end of gsap.to(el, {opacity: 1, ...}) issued by owner `tag`.
GsapShown(ms, els, tag) ==
    {m \in ms : ~(m.el \in els /\ m.tag = tag)}
        \cup {[el |-> e, tag |-> tag, val |-> "shown"] : e \in els}

\* gsap.context(callback, section): every GSAP call of the callback is recorded
\* under the new handle: the hidden initial states and the once-only ScrollTriggers.
GsapContext(s, r) ==
    LET h == NewHandle(s, r) IN
    [s EXCEPT !.live = @ \cup {h},
              !.muts = GsapSet(@, Callback(r), h),
              !.triggers = @ \cup {[tag |-> h, el |-> e, fired |-> FALSE] : e \in Callback(r)},
              !.nOpen[r] = @ + 1,
              !.doubleOpen = @ \/ LiveOfIn(s, r) # {}]

\* A revert that removes the inline styles and leaves the ScrollTriggers registered.
RevertKeepsTriggers(s, r, h) ==
    IF h = NULL
    THEN [s EXCEPT !.error = TRUE]
    ELSE [s EXCEPT !.live = @ \ {h},
                   !.muts = {m \in @ : m.tag # h},
                   !.nRevert[r] = @ + 1]

\* handle.revert(): removes all inline styles GSAP applied inside the context and
\* kills all its ScrollTriggers. Calling it on null throws.
Revert(s, r, h) ==
    IF h = NULL
    THEN [s EXCEPT !.error = TRUE]
    ELSE [s EXCEPT !.live = @ \ {h},
                   !.muts = {m \in @ : m.tag # h},
                   !.triggers = {t \in @ : t.tag # h},
                   !.nRevert[r] = @ + 1]

----------------------------------------------------------------------------
\* The listeners.

\* A cleanup that drops the handle without reverting it.
CleanupNoRevert(s, r) ==
    IF s.ctx[r] # NULL
    THEN [s EXCEPT !.ctx[r] = NULL]
    ELSE s

\* A cleanup that reverts and leaves the reverted handle in the variable.
CleanupKeepsSlot(s, r) ==
    IF s.ctx[r] # NULL
    THEN Revert(s, r, s.ctx[r])
    ELSE s

\* A cleanup without the `if (ctx)` test.
CleanupUnguarded(s, r) == [Revert(s, r, s.ctx[r]) EXCEPT !.ctx[r] = NULL]

\* if (ctx) { ctx.revert(); ctx = null; }
Cleanup(s, r) ==
    IF s.ctx[r] # NULL
    THEN [Revert(s, r, s.ctx[r]) EXCEPT !.ctx[r] = NULL]
    ELSE s

\* An init routine without the cleanup at its start.
InitAnimationsNoCleanup(s, r, present) ==
    IF ~present
    THEN s
    ELSE [GsapContext(s, r) EXCEPT !.ctx[r] = NewHandle(s, r)]

\* An init routine without the `if (!section) return;` guard.
InitAnimationsNoGuard(s, r, present) ==
    LET c == Cleanup(s, r) IN
    [GsapContext(c, r) EXCEPT !.ctx[r] = NewHandle(c, r)]

\* An init routine that awaits a dynamic import() after its cleanup: the listener
\* returns there, and the context is opened by a later task.
InitAnimationsAwaitsImport(s, r, present) == Cleanup(s, r)

\* function initAnimations()
InitAnimationsOn(s, r, present) ==
    LET c == Cleanup(s, r) IN
    IF ~present
    THEN c
    ELSE [GsapContext(c, r) EXCEPT !.ctx[r] = NewHandle(c, r)]

\* An initReveals that hides every element and leaves all of them to the observer.
InitRevealsObserveAll(s, els, vp) ==
    [s EXCEPT !.muts = GsapSet(@, els, NoScope),
              !.observed = @ \cup els]

\* function initReveals(): vp are the elements whose rectangle meets the viewport.
\* Nothing here kills a tween an earlier run started.
InitRevealsOn(s, els, vp) ==
    [s EXCEPT !.muts = GsapSet(@, els, NoScope),
              !.tweens = @ \cup (els \cap vp),
              !.observed = @ \cup (els \ vp)]

\* Listeners in registration order.
PageLoadListeners ==
    <<[h |-> "initAnimations", r |-> "GSAPNewTires"],
      [h |-> "initAnimations", r |-> "WhyChooseUs"],
      [h |-> "initReveals", r |-> "document"]>>

BeforeSwapListeners ==
    <<[h |-> "beforeSwap", r |-> "GSAPNewTires"],
      [h |-> "beforeSwap", r |-> "WhyChooseUs"]>>

\* Static styling before the audit: any element may be hidden by CSS.
StaticStylesUnaudited(dec) == SUBSET Elements

\* Static styling after the audit: nothing is hidden by CSS, except in sections
\* left as intentional scroll-pinned experiences.
StaticStyles(dec) == SUBSET {e \in Elements : RegionOf(e) \in dec}

Init ==
    /\ jsEnabled \in BOOLEAN
    /\ decorative \in SUBSET Regions
    /\ cssHidden \in StaticStyles(decorative)
    /\ page \in SUBSET Regions
    /\ queue = <<>>
    /\ nEvents = 0
    /\ ctx = [r \in Regions |-> NULL]
    /\ live = {}
    /\ muts = {}
    /\ triggers = {}
    /\ tweens = {}
    /\ observed = {}
    /\ nOpen = [r \in Regions |-> 0]
    /\ nRevert = [r \in Regions |-> 0]
    /\ doubleOpen = FALSE
    /\ error = FALSE
    /\ hist = [r \in Regions |-> <<>>]
    /\ nFired = [r \in Regions |-> 0]
    /\ inViewport = {}

Dispatch(listeners) == IF jsEnabled THEN listeners ELSE <<>>

\* document.querySelectorAll("[data-reveal]") on document p.
RevealOn(p) == {e \in RevealElements : RegionOf(e) \in p}

\* A navigation completes on document p, scrolled so that some [data-reveal]
\* elements meet the viewport, and astro:page-load is dispatched.
PageLoadEvent(p) ==
    /\ queue = <<>>
    /\ nEvents < MaxSignals
    /\ nEvents' = nEvents + 1
    /\ page' = p
    /\ inViewport' \in SUBSET RevealOn(p)
    /\ queue' = Dispatch(PageLoadListeners)
    /\ UNCHANGED <<jsEnabled, cssHidden, decorative, ctx, live, muts, triggers, tweens,
                   observed, nOpen, nRevert, doubleOpen, error, hist,
                   nFired>>

\* A navigation is about to swap the document and astro:before-swap is dispatched.
BeforeSwapEvent ==
    /\ queue = <<>>
    /\ nEvents < MaxSignals
    /\ nEvents' = nEvents + 1
    /\ queue' = Dispatch(BeforeSwapListeners)
    /\ UNCHANGED <<jsEnabled, cssHidden, decorative, page, ctx, live, muts, triggers,
                   tweens, observed, nOpen, nRevert, doubleOpen, error, hist,
                   nFired, inViewport>>

Running(h, r) == queue # <<>> /\ Head(queue) = [h |-> h, r |-> r]

InitAnimations(r) ==
    /\ Running("initAnimations", r)
    /\ queue' = Tail(queue)
    /\ Commit(InitAnimationsOn(Cur, r, r \in page))
    /\ hist' = [hist EXCEPT ![r] = Append(@, IF r \in page THEN "load+" ELSE "load-")]
    /\ UNCHANGED <<jsEnabled, cssHidden, decorative, page, nEvents, nFired, inViewport>>

BeforeSwap(r) ==
    /\ Running("beforeSwap", r)
    /\ queue' = Tail(queue)
    /\ Commit(Cleanup(Cur, r))
    /\ hist' = [hist EXCEPT ![r] = Append(@, "swap")]
    /\ UNCHANGED <<jsEnabled, cssHidden, decorative, page, nEvents, nFired, inViewport>>

InitReveals ==
    /\ Running("initReveals", "document")
    /\ queue' = Tail(queue)
    /\ Commit(InitRevealsOn(Cur, RevealOn(page), inViewport))
    /\ UNCHANGED <<jsEnabled, cssHidden, decorative, page, nEvents, hist, nFired, inViewport>>

\* A once-only ScrollTrigger of a live context fires and its tween shows the element.
TriggerFire(t) ==
    /\ queue = <<>>
    /\ t \in triggers
    /\ ~t.fired
    /\ RegionOf(t.el) \in page
    /\ triggers' = (triggers \ {t}) \cup {[t EXCEPT !.fired = TRUE]}
    /\ muts' = GsapShown(muts, {t.el}, t.tag)
    /\ nFired' = [nFired EXCEPT ![RegionOf(t.el)] = @ + 1]
    /\ UNCHANGED <<jsEnabled, cssHidden, decorative, page, queue, nEvents, ctx, live,
                   tweens, observed, nOpen, nRevert, doubleOpen, error, hist,
                   inViewport>>

\* The gsap.to() tween initReveals started reaches its end.
TweenComplete(e) ==
    /\ queue = <<>>
    /\ e \in tweens
    /\ tweens' = tweens \ {e}
    /\ muts' = GsapShown(muts, {e}, NoScope)
    /\ UNCHANGED <<jsEnabled, cssHidden, decorative, page, queue, nEvents, ctx, live,
                   triggers, observed, nOpen, nRevert, doubleOpen, error, hist,
                   nFired, inViewport>>

Next ==
    \/ \E p \in SUBSET Regions : PageLoadEvent(p)
    \/ BeforeSwapEvent
    \/ \E r \in Regions : InitAnimations(r)
    \/ \E r \in Regions : BeforeSwap(r)
    \/ InitReveals
    \/ \E t \in triggers : TriggerFire(t)
    \/ \E e \in Elements : TweenComplete(e)

Spec == Init /\ [][Next]_vars

\* A step of a listener of the event being dispatched.
ListenerStep ==
    \/ \E r \in Regions : InitAnimations(r)
    \/ \E r \in Regions : BeforeSwap(r)
    \/ InitReveals

\* A visit with scripts running on a site with no CSS-hidden section: initReveals
\* reads neither the static styling nor its classification.
RevealInit == Init /\ jsEnabled /\ decorative = {}

\* The dispatch of an event runs every listener, and the ticker of the animation
\* library runs every tween to its end.
FairSpec ==
    /\ RevealInit
    /\ [][Next]_vars
    /\ WF_vars(ListenerStep)
    /\ \A e \in RevealElements : WF_vars(TweenComplete(e))

----------------------------------------------------------------------------
\* Steps of the listeners of component r, as the run takes them.

InitStep(r) == Running("initAnimations", r) /\ queue' = Tail(queue)

SwapStep(r) == Running("beforeSwap", r) /\ queue' = Tail(queue)

\* The inline styles and triggers a handle owns, without the handle's identity.
StylesOf(ms, h) == {<<m.el, m.val>> : m \in {x \in ms : x.tag = h}}

TriggersOf(ts, h) == {<<t.el, t.fired>> : t \in {x \in ts : x.tag = h}}

Last(q) == q[Len(q)]

----------------------------------------------------------------------------
\* C1: at most one scope: in every reachable state, whatever page-load and
\* before-swap events were dispatched on pages with or without the section, each
\* component has zero or one live (created, not reverted) context.
C1_AtMostOneScope == \A r \in Regions : Cardinality(LiveOf(r)) <= 1

\* A component that was left and come back to, holding its one live context.
C1_Witness ==
    \E r \in Regions :
        /\ Cardinality(LiveOf(r)) = 1
        /\ Len(hist[r]) >= 3
        /\ nOpen[r] >= 2

\* C2: gsap.context() is never called while the component has a live context:
\* between two consecutive opens of a component the handle of the first was
\* reverted, so the scope-already-active-on-open assertion never fires.
C2_NeverOpenWhileLive ==
    /\ ~doubleOpen
    /\ \A r \in Regions : nOpen[r] <= nRevert[r] + 1

\* A component opened twice, with the revert in between.
C2_Witness ==
    \E r \in Regions : nOpen[r] = 2 /\ nRevert[r] >= 1 /\ ~doubleOpen

\* C3: no residue: the step that reverts a handle leaves no inline style and no
\* trigger owned by it, and the styles and triggers of every other owner are what
\* they were, as if the reverted scope had never been opened; no style or trigger
\* of a handle that is not live exists in any state.
C3_NoResidue ==
    [][\A r \in Regions :
          (ctx[r] # NULL /\ (InitStep(r) \/ SwapStep(r))) =>
              /\ ctx[r] \notin live'
              /\ StylesOf(muts', ctx[r]) = {}
              /\ TriggersOf(triggers', ctx[r]) = {}
              /\ {m \in muts' : m.tag # ctx'[r]} = {m \in muts : m.tag # ctx[r]}
              /\ {t \in triggers' : t.tag # ctx'[r]} = {t \in triggers : t.tag # ctx[r]}]_vars

\* A component reverted by before-swap after a page-load had opened its context:
\* nothing of that context is left on its elements.
C3_Witness ==
    \E r \in Regions :
        /\ Len(hist[r]) >= 2
        /\ Last(hist[r]) = "swap"
        /\ hist[r][Len(hist[r]) - 1] = "load+"
        /\ nRevert[r] >= 1
        /\ ctx[r] = NULL
        /\ \A m \in muts : m.tag.r # r

\* C4: every hidden-until-animated state is set inside an open scope: every inline
\* style that hides an element is owned by the live context stored in the
\* variable of the element's component, so with the variable null nothing is
\* hidden. It is to hold for every astro:page-load listener, initReveals included.
C4_HiddenOnlyInScope ==
    \A m \in muts :
        m.val = "hidden" => (m.tag \in live /\ m.tag = ctx[RegionOf(m.el)])

C6_IdempotentRevert ==
    [][\A r \in Regions :
          SwapStep(r) => (Cleanup(Cur', r) = Cur' /\ ~error')]_vars

\* A component whose cleanup ran twice in a row after a page-load had opened its context.
C6_Witness ==
    \E r \in Regions :
        /\ hist[r] = <<"load+", "swap", "swap">>
        /\ nRevert[r] = 1
        /\ ctx[r] = NULL
        /\ ~error

\* C7, as stated: after page-load, before-swap, page-load on pages with the section
\* the component has one live context, two revert calls and two open calls.
C7_TwoRevertsTwoOpens ==
    \A r \in Regions :
        hist[r] = <<"load+", "swap", "load+">> =>
            /\ Cardinality(LiveOf(r)) = 1
            /\ nRevert[r] = 2
            /\ nOpen[r] = 2

\* C7, amended: after that sequence the component has one live context, stored in
\* its variable, with two open calls and one revert call made (the cleanup of the
\* two page-loads finds the variable null and calls nothing).
C7_OneRevertTwoOpens ==
    \A r \in Regions :
        hist[r] = <<"load+", "swap", "load+">> =>
            /\ LiveOf(r) = {ctx[r]}
            /\ nRevert[r] = 1
            /\ nOpen[r] = 2

\* The section left and come back to.
C7_Witness == \E r \in Regions : hist[r] = <<"load+", "swap", "load+">> /\ queue = <<>>

\* C8: after the before-swap listener of a component has run, whatever the state
\* before, the component has no live context and its variable is null.
C8_IdleAfterBeforeSwap ==
    [][\A r \in Regions :
          SwapStep(r) => (ctx'[r] = NULL /\ LiveOf(r)' = {})]_vars

\* Navigate away with no return: the context the page-load opened is gone.
C8_Witness ==
    \E r \in Regions :
        /\ hist[r] = <<"load+", "swap">>
        /\ nOpen[r] = 1
        /\ LiveOf(r) = {}
        /\ ctx[r] = NULL

\* C9: absent-section safety: a listener of a component that runs on a page without
\* its section throws nothing, opens no context, applies no style and registers no
\* trigger, and leaves the variable null with no live context, whether the
\* variable was null or held a context before.
C9_AbsentRegionSafety ==
    [][\A r \in Regions :
          ((InitStep(r) \/ SwapStep(r)) /\ r \notin page) =>
              /\ ~error'
              /\ nOpen'[r] = nOpen[r]
              /\ muts' \subseteq muts
              /\ triggers' \subseteq triggers
              /\ ctx'[r] = NULL
              /\ LiveOf(r)' = {}]_vars

\* A page-load on a page without the section, reached while the context of the
\* previous page was still live.
C9_Witness ==
    \E r \in Regions :
        /\ Len(hist[r]) >= 2
        /\ Last(hist[r]) = "load-"
        /\ hist[r][Len(hist[r]) - 1] = "load+"
        /\ nRevert[r] >= 1
        /\ ctx[r] = NULL
        /\ ~error

\* The state of a program in which no listener has run.
Blank ==
    [ctx |-> [r \in Regions |-> NULL], live |-> {}, muts |-> {}, triggers |-> {},
     tweens |-> {}, observed |-> {}, nOpen |-> [r \in Regions |-> 0],
     nRevert |-> [r \in Regions |-> 0], doubleOpen |-> FALSE, error |-> FALSE]

\* C10: a redundant page-load is safe: when initAnimations runs on a page with the
\* section right after it ran on one, the context of the first run is reverted,
\* the one live context of the component is the new one, and its styles and
\* triggers are those a single run leaves.
C10_RedundantPageLoad ==
    [][\A r \in Regions :
          (InitStep(r) /\ r \in page /\ hist[r] # <<>> /\ Last(hist[r]) = "load+") =>
              LET single == InitAnimationsOn(Blank, r, TRUE) IN
              /\ ctx[r] \notin live'
              /\ nRevert'[r] = nRevert[r] + 1
              /\ ~doubleOpen'
              /\ LiveOf(r)' = {ctx'[r]}
              /\ StylesOf(muts', ctx'[r]) = StylesOf(single.muts, single.ctx[r])
              /\ TriggersOf(triggers', ctx'[r]) = TriggersOf(single.triggers, single.ctx[r])
              /\ \A m \in muts' : m.tag.r = r => m.tag = ctx'[r]]_vars

\* Two page-loads in a row on pages with the section.
C10_Witness ==
    \E r \in Regions :
        /\ Len(hist[r]) >= 2
        /\ Last(hist[r]) = "load+"
        /\ hist[r][Len(hist[r]) - 1] = "load+"
        /\ Cardinality(LiveOf(r)) = 1
        /\ nOpen[r] >= 2

\* The inline styles on the elements of component q, and the triggers on them.
StylesOn(ms, q) == {m \in ms : RegionOf(m.el) = q}

TriggersOn(ts, q) == {t \in ts : RegionOf(t.el) = q}

\* C11: listeners are atomic with respect to each other: the revert and the open of
\* initAnimations happen in one listener run, no event is dispatched while a
\* listener of the previous one is still to run, a context is opened only by the
\* page-load listener of its component, and once before-swap has been handled
\* the component has no live context until its next page-load listener runs.
C11_HandlersAtomic ==
    /\ [](\A r \in Regions :
            (hist[r] # <<>> /\ Last(hist[r]) = "swap") => LiveOf(r) = {})
    /\ [][/\ nEvents' # nEvents => queue = <<>>
          /\ \A r \in Regions :
               /\ (InitStep(r) /\ r \in page) =>
                     /\ nOpen'[r] = nOpen[r] + 1
                     /\ ctx'[r] \in live'
                     /\ ctx[r] # NULL =>
                           (nRevert'[r] = nRevert[r] + 1 /\ ctx[r] \notin live')
               /\ nOpen'[r] # nOpen[r] => (InitStep(r) /\ r \in page)
               /\ LiveOf(r)' # LiveOf(r) => (InitStep(r) \/ SwapStep(r))]_vars

\* A page-load listener that reverted the context of the previous page and opened
\* the next one in the same run, followed by a before-swap.
C11_Witness ==
    \E r \in Regions :
        /\ hist[r] = <<"load+", "load+", "swap">>
        /\ nOpen[r] = 2
        /\ nRevert[r] = 2
        /\ LiveOf(r) = {}

\* C12: cross-component isolation: a listener run of one component leaves the
\* variable, the live contexts, the call counts and the styles and triggers on
\* the elements of every other component as they were; the variable and the live
\* contexts of a component change only in runs of its own listeners.
C12_CrossRegionIsolation ==
    [][\A r \in Regions : \A q \in Regions \ {r} :
          /\ (InitStep(r) \/ SwapStep(r)) =>
                /\ ctx'[q] = ctx[q]
                /\ LiveOf(q)' = LiveOf(q)
                /\ nOpen'[q] = nOpen[q]
                /\ nRevert'[q] = nRevert[q]
                /\ StylesOn(muts', q) = StylesOn(muts, q)
                /\ TriggersOn(triggers', q) = TriggersOn(triggers, q)
                /\ \A m \in muts' : m.tag.r = r => RegionOf(m.el) = r
          /\ (ctx'[q] # ctx[q] \/ LiveOf(q)' # LiveOf(q)) =>
                (InitStep(q) \/ SwapStep(q))]_vars

\* Both components live at once, each holding its own context, after one of them
\* was reverted and reopened.
C12_Witness ==
    /\ \A r \in Regions : ctx[r] # NULL /\ LiveOf(r) = {ctx[r]}
    /\ \E r \in Regions : \E q \in Regions \ {r} : nOpen[r] = 2 /\ nOpen[q] = 1
    /\ \A r \in Regions : StylesOn(muts, r) # {}

\* C13: before-swap with the variable null is a no-op: the variable stays null,
\* no revert and no open call is made, nothing throws, and every style, trigger,
\* tween and live context is what it was.
C13_BeforeSwapIdleNoOp ==
    [][\A r \in Regions :
          (SwapStep(r) /\ ctx[r] = NULL) =>
              /\ ctx'[r] = NULL
              /\ ~error'
              /\ UNCHANGED <<ctx, live, muts, triggers, tweens, observed,
                             nOpen, nRevert, doubleOpen, error>>]_vars

\* A before-swap on a component that never opened a context, while styles of
\* others exist.
C13_Witness ==
    \E r \in Regions :
        /\ Len(hist[r]) >= 2
        /\ Last(hist[r]) = "swap"
        /\ nOpen[r] = 0
        /\ nRevert[r] = 0
        /\ muts # {}
        /\ ~error

\* C14: the variable and the live contexts agree: a component's variable is
\* non-null exactly when it has a live context, that context is the stored one
\* and was opened by this component, so the variable never holds a reverted
\* handle and no live context is out of reach of the next revert.
C14_SlotAgreesWithLive ==
    \A r \in Regions :
        /\ LiveOf(r) = IF ctx[r] = NULL THEN {} ELSE {ctx[r]}
        /\ ctx[r] # NULL => (ctx[r].r = r /\ ctx[r].n = nOpen[r])
        /\ \A h \in live : h.r \in Regions

\* A stored live context that is the second one its component opened.
C14_Witness ==
    \E r \in Regions :
        /\ ctx[r] \in live
        /\ ctx[r].n = 2
        /\ nRevert[r] = 1

\* The unfired trigger that reveals element e under handle h.
Unfired(h, e) == [tag |-> h, el |-> e, fired |-> FALSE]

\* C15: every initAnimations run on a page with the section ends with the variable
\* holding a fresh live context, and the triggers registered on the section are
\* exactly that context's, new and unfired: those that fired on an earlier
\* visit went with the reverted context. So whatever a live context hides has an
\* unfired trigger registered that shows it, which can fire whenever the page
\* renders the section and no listener is running.
C15_FreshTriggersOnPageLoad ==
    /\ [](\A m \in muts :
            (m.tag \in live /\ m.val = "hidden") =>
                /\ Unfired(m.tag, m.el) \in triggers
                /\ (queue = <<>> /\ RegionOf(m.el) \in page) =>
                       ENABLED TriggerFire(Unfired(m.tag, m.el)))
    /\ [][\A r \in Regions :
            (InitStep(r) /\ r \in page) =>
                /\ ctx'[r] # NULL
                /\ ctx'[r] # ctx[r]
                /\ ctx'[r].n > nOpen[r]
                /\ LiveOf(r)' = {ctx'[r]}
                /\ TriggersOn(triggers', r) = {Unfired(ctx'[r], e) : e \in Callback(r)}
                /\ StylesOf(muts', ctx'[r]) = {<<e, "hidden">> : e \in Callback(r)}]_vars

\* Away and back: a trigger fired on the first visit, the context was reverted, and
\* the trigger of the context of the second visit has fired too.
C15_Witness ==
    \E r \in Regions :
        /\ hist[r] = <<"load+", "swap", "load+">>
        /\ nFired[r] = 2
        /\ ctx[r].n = 2
        /\ \E t \in triggers : t.tag = ctx[r] /\ t.fired
        /\ \A e \in Callback(r) : <<e, "shown">> \in StylesOf(muts, ctx[r])

\* One run of initReveals.
RevealStep == Running("initReveals", "document") /\ queue' = Tail(queue)

\* The style initReveals applied to element e shows it.
RevealShown(e) == [el |-> e, tag |-> NoScope, val |-> "shown"] \in muts

RevealHidden(e) == [el |-> e, tag |-> NoScope, val |-> "hidden"] \in muts

\* C16: every run of initReveals, on the first load and on later navigations,
\* partitions the [data-reveal] elements of the page: one in the viewport is
\* hidden and its reveal tween started, without being handed to the observer;
\* one below the fold is hidden and handed to the observer, with no tween
\* started; elements not on the page are left alone. Every element whose reveal
\* tween was started is eventually shown by it, with no observer callback.
C16_RevealsPartition ==
    /\ [][RevealStep =>
            /\ \A e \in RevealOn(page) \cap inViewport :
                  /\ RevealHidden(e)'
                  /\ e \in tweens'
                  /\ e \in observed' => e \in observed
            /\ \A e \in RevealOn(page) \ inViewport :
                  /\ RevealHidden(e)'
                  /\ e \in observed'
                  /\ e \in tweens' => e \in tweens
            /\ \A e \in RevealElements \ RevealOn(page) :
                  /\ (e \in tweens') = (e \in tweens)
                  /\ (e \in observed') = (e \in observed)
                  /\ RevealHidden(e)' = RevealHidden(e)]_vars
    /\ \A e \in RevealElements : (e \in tweens) ~> RevealShown(e)

\* A later client-side navigation found the element in the viewport again and the
\* tween has shown it, the element never having been handed to the observer.
C16_Witness ==
    \E e \in RevealElements :
        /\ RevealShown(e)
        /\ e \in inViewport
        /\ e \notin tweens
        /\ e \notin observed
        /\ Len(hist[RegionOf(e)]) >= 3
        /\ Last(hist[RegionOf(e)]) = "load+"
        /\ queue = <<>>

====
